---- MODULE Spec2Model ----
(***************************************************************************)
(* A model of src/subsample.py: the grid reader (read_grid), the block     *)
(* reduction (subsample_grid), the command line validation (parse_inputs)  *)
(* and the script body (__main__).                                         *)
(*                                                                         *)
(* Cell values are small integers, so every sum is exact in each of the    *)
(* three element kinds; an output cell is kept as the fraction             *)
(* <<numerator, denominator>> the code divides out.  A Python None that    *)
(* stands for a missing integer is the empty set and an integer n is {n}.  *)
(***************************************************************************)
EXTENDS Integers, Sequences, FiniteSets, TLC

\* ------------------------------------------------------------------ bounds
\* Largest number of cells per dimension of a grid.
MaxGridsize == 3
\* Largest cell value of an input grid.
MaxValue == 2

\* ------------------------------------------------------- values and grids
GridSizes == 0..MaxGridsize
\* Requested output gridsizes: up to twice the largest input gridsize, so
\* every input gridsize has a requested size that is a proper multiple of it.
OutSizes == 0..(2 * MaxGridsize)

Dtypes == {"int32", "float32", "float64"}

None == {}
Some(n) == {n}
Val(s) == CHOOSE x \in s : TRUE

Cube(n) == n * n * n

\* The index set of an array of the given shape.
Cells(shape) ==
    (0..(shape[1] - 1)) \X (0..(shape[2] - 1)) \X (0..(shape[3] - 1))

\* No array: the value of a variable that has not been assigned.
NoGrid == [shape |-> <<>>, dtype |-> "none", data |-> <<>>]

IsGrid(g) == g.dtype # "none"

\* numpy arrays as the tests and callers build them.
Uniform(shape, dtype, v) ==
    [shape |-> shape, dtype |-> dtype, data |-> [c \in Cells(shape) |-> v]]

Impulse(n, dtype, k, v) ==
    [shape |-> <<n, n, n>>, dtype |-> dtype,
     data |-> [c \in Cells(<<n, n, n>>) |->
                 IF c[1] % k = 0 /\ c[2] % k = 0 /\ c[3] % k = 0
                 THEN v ELSE 0]]

\* Row-major flat index of a cell: the first axis varies slowest.
FlatIndex(g, c) == (c[1] * g + c[2]) * g + c[3]

Ramp(n, dtype) ==
    [shape |-> <<n, n, n>>, dtype |-> dtype,
     data |-> [c \in Cells(<<n, n, n>>) |-> FlatIndex(n, c)]]

Shapes == GridSizes \X GridSizes \X GridSizes

Divisors(n) == {k \in 1..n : n % k = 0}

InputGrids ==
    {Uniform(s, d, v) : s \in Shapes, d \in Dtypes, v \in 0..MaxValue}
    \cup {Ramp(n, d) : n \in GridSizes, d \in Dtypes}
    \cup UNION {{Impulse(n, d, k, v) : v \in (1..MaxValue) \cup {Cube(k)},
                                      d \in Dtypes} :
                <<n, k>> \in {p \in GridSizes \X GridSizes :
                                p[2] \in Divisors(p[1])}}

RECURSIVE SumOver(_, _)
SumOver(S, f) ==
    IF S = {} THEN 0
    ELSE LET c == CHOOSE x \in S : TRUE
         IN f[c] + SumOver(S \ {c}, f)

\* --------------------------------------------------------- subsample_grid
\* input_grid.shape == (input_gridsize, input_gridsize, input_gridsize)
IsCubic(g) == g.shape = <<g.shape[1], g.shape[1], g.shape[1]>>

\* A slip: only the direction of the resampling is checked.
RatioCheckPasses_DirectionOnly(input_gridsize, output_gridsize) ==
    output_gridsize <= input_gridsize

\* The condition of the ratio check: output_gridsize % input_gridsize == 0.
RatioCheckPasses(input_gridsize, output_gridsize) ==
    output_gridsize % input_gridsize = 0

\* int(input_gridsize / output_gridsize), for non-negative sizes.
Conversion(input_gridsize, output_gridsize) ==
    input_gridsize \div output_gridsize

\* The offsets, along one axis, of the input cells that
\* ndimage.convolve(input, np.ones((k, k, k))) adds up into one output cell:
\* the filter is centred, and convolve shifts an even-sized filter by one.
FootprintOffsets(k) ==
    LET lo == 0 - ((k - 1) \div 2) IN lo..(lo + k - 1)

\* mode='wrap': a coordinate past an edge continues from the opposite edge.
Wrap(i, n) == i % n

\* The input cells the sliding sum at cell c adds up.
FootprintCells(c, k, n) ==
    {<<Wrap(c[1] + d[1], n), Wrap(c[2] + d[2], n), Wrap(c[3] + d[3], n)>> :
        d \in FootprintOffsets(k) \X FootprintOffsets(k) \X FootprintOffsets(k)}

\* ndimage.convolve(input_grid, footprint, mode='wrap') for 1 <= k <= n:
\* the result has the shape and the element kind of the input.
Convolve(g, k) ==
    [shape |-> g.shape, dtype |-> g.dtype,
     data |-> [c \in Cells(g.shape) |->
                 SumOver(FootprintCells(c, k, g.shape[1]), g.data)]]

\* A slip: the output allocated with the element kind of the input.
ZerosDtype_LikeInput(in_dtype) == in_dtype

\* np.zeros((m, m, m)): the default element kind is float64.
ZerosDtype(in_dtype) == "float64"

\* The loop filling final_new_density: cell (i, j, k) is
\* new_density[i*conversion, j*conversion, k*conversion] / pow(conversion, 3.0).
Sample(density, m, k) ==
    [shape |-> <<m, m, m>>, dtype |-> ZerosDtype(density.dtype),
     data |-> [c \in Cells(<<m, m, m>>) |->
                 <<density.data[<<c[1] * k, c[2] * k, c[3] * k>>], Cube(k)>>]]

\* -------------------------------------------------------------- read_grid
\* A slip: the tags parse_inputs accepts, which leave out "int".
ReadPrecisions_NoInt == {"float", "double"}

\* Lines 141-149: the precision tags read_grid accepts.
ReadPrecisions == {"int", "float", "double"}

\* Lines 142, 145, 148: the width in bytes of one element.
byte_size(p) == IF p = "double" THEN 8 ELSE 4

\* Lines 143, 146, 149: the numpy element kind of a precision tag.
precision_dtype(p) ==
    IF p = "int" THEN "int32" ELSE IF p = "float" THEN "float32" ELSE "float64"

\* A slip: only a file that is too short is refused.
SizeMismatch_TooShortOnly(g, width, filesize) == Cube(g) * width > filesize

\* Line 158: pow(gridsize, 3.0) * byte_size != filesize.
SizeMismatch(g, width, filesize) == Cube(g) * width # filesize

\* A file on disk: whether it exists and its length in bytes.  Element i of
\* the file, read at any width, is modelled by its position i in the file.
NoFile == [exists |-> FALSE, size |-> 0]

FileSizes ==
    {n \in {Cube(g) * w + d : g \in GridSizes, w \in {4, 8}, d \in {0 - 1, 0, 1}} :
        n >= 0}

Files == {NoFile} \cup {[exists |-> TRUE, size |-> n] : n \in FileSizes}

Min(a, b) == IF a < b THEN a ELSE b

\* Line 167: np.fromfile(fd, count, dtype) returns the elements the file
\* holds, count of them at most.
FromFileCount(f, count, width) == Min(count, f.size \div width)

\* Lines 167-169: the elements read, reshaped in row-major order.
ReadArray(g, p) ==
    [shape |-> <<g, g, g>>, dtype |-> precision_dtype(p),
     data |-> [c \in Cells(<<g, g, g>>) |-> FlatIndex(g, c)]]

\* ----------------------------------------------------------- parse_inputs
\* The values argparse can hand over for --precision; "None" is no value.
ArgPrecisions == {"None", "int", "float", "double", "half"}

OptSizes(S) == {None} \cup {Some(n) : n \in S}

ArgSets ==
    [fname_in : BOOLEAN, fname_out : BOOLEAN, precision : ArgPrecisions,
     gridsize_in : OptSizes(GridSizes), gridsize_out : OptSizes(OutSizes)]

NoArgs ==
    [fname_in |-> FALSE, fname_out |-> FALSE, precision |-> "None",
     gridsize_in |-> None, gridsize_out |-> None]

\* Line 67: the precision tags parse_inputs accepts.
ParsePrecisions == {"float", "double"}

\* Lines 60-90: the check of parse_inputs that rejects the arguments,
\* "ok" if none does.  The checks run in this order.
ParseVerdict(a) ==
    IF ~a.fname_in \/ ~a.fname_out THEN "fname"
    ELSE IF a.precision \notin ParsePrecisions THEN "precision"
    ELSE IF a.gridsize_in = None \/ a.gridsize_out = None THEN "gridsize"
    ELSE IF Val(a.gridsize_in) < Val(a.gridsize_out) THEN "upsample"
    ELSE IF Val(a.gridsize_out) = 0 THEN "modulo"
    ELSE IF Val(a.gridsize_in) % Val(a.gridsize_out) # 0 THEN "ratio"
    ELSE "ok"

\* The exception each check raises: every check raises ValueError; the
\* modulo of line 87 raises ZeroDivisionError for an output gridsize of 0.
ParseError(verdict) ==
    IF verdict = "modulo" THEN "ZeroDivisionError" ELSE "ValueError"

\* ------------------------------------------------------------------ state
VARIABLES
    entry,              \* the function or script that was invoked
    pc,                 \* the place the run has reached
    raised,             \* the exception that ended the run, "None" if none
    raisedAt,           \* the statement that raised it
    input_grid,         \* subsample_grid's parameter; __main__'s global
    output_gridsize,    \* subsample_grid's parameter
    conversion, new_density, final_new_density,   \* subsample_grid's locals
    file,               \* the file at the input path
    gridsize, precision,          \* read_grid's parameters
    grid,               \* read_grid's result
    fileOps,            \* the operations done on the input file, in order
    args,               \* the parsed command line
    outFile             \* the file at the output path

vars == <<entry, pc, raised, raisedAt, input_grid, output_gridsize,
          conversion, new_density, final_new_density, file, gridsize,
          precision, grid, fileOps, args, outFile>>

sgVars == <<input_grid, output_gridsize, conversion, new_density,
            final_new_density>>

rgVars == <<file, gridsize, precision, grid, fileOps>>

InitCommon ==
    /\ raised = "None"
    /\ raisedAt = "None"
    /\ conversion = None
    /\ new_density = NoGrid
    /\ final_new_density = NoGrid
    /\ grid = NoGrid
    /\ fileOps = <<>>
    /\ outFile = NoFile

\* A direct call subsample_grid(input_grid, output_gridsize).
InitSubsample ==
    /\ entry = "subsample_grid"
    /\ pc = "sg_cubic"
    /\ input_grid \in InputGrids
    /\ output_gridsize \in {Some(m) : m \in OutSizes}
    /\ file = NoFile
    /\ gridsize = None
    /\ precision = "None"
    /\ args = NoArgs

\* A direct call read_grid(filepath, gridsize, precision).
InitRead ==
    /\ entry = "read_grid"
    /\ pc = "rg_precision"
    /\ input_grid = NoGrid
    /\ output_gridsize = None
    /\ file \in Files
    /\ gridsize \in {Some(g) : g \in GridSizes}
    /\ precision \in ArgPrecisions
    /\ args = NoArgs

\* The script run from the command line.
InitMain ==
    /\ entry = "main"
    /\ pc = "main_parse"
    /\ input_grid = NoGrid
    /\ output_gridsize = None
    /\ file \in Files
    /\ gridsize = None
    /\ precision = "None"
    /\ args \in ArgSets

Init ==
    /\ InitCommon
    /\ (InitSubsample \/ InitRead \/ InitMain)

Raise(e, at) ==
    /\ raised' = e
    /\ raisedAt' = at
    /\ pc' = "raised"

Continue(to) ==
    /\ pc' = to
    /\ UNCHANGED <<raised, raisedAt>>

\* --------------------------------------------------------- subsample_grid
\* Lines 211-219: the cubic check.
SG_CheckCubic ==
    /\ pc = "sg_cubic"
    /\ IF IsCubic(input_grid)
       THEN Continue("sg_ratio")
       ELSE Raise("RuntimeError", "cubic")
    /\ UNCHANGED <<entry, sgVars, rgVars, args, outFile>>

\* Lines 221-225: the ratio check.
SG_CheckRatio ==
    /\ pc = "sg_ratio"
    /\ IF input_grid.shape[1] = 0
       THEN Raise("ZeroDivisionError", "ratio")
       ELSE IF RatioCheckPasses(input_grid.shape[1], Val(output_gridsize))
            THEN Continue("sg_conversion")
            ELSE Raise("RuntimeError", "ratio")
    /\ UNCHANGED <<entry, sgVars, rgVars, args, outFile>>

\* Line 227.
SG_Conversion ==
    /\ pc = "sg_conversion"
    /\ IF Val(output_gridsize) = 0
       THEN /\ Raise("ZeroDivisionError", "conversion")
            /\ conversion' = conversion
       ELSE /\ conversion' = Some(Conversion(input_grid.shape[1],
                                             Val(output_gridsize)))
            /\ Continue("sg_convolve")
    /\ UNCHANGED <<entry, input_grid, output_gridsize, new_density,
                   final_new_density, rgVars, args, outFile>>

\* Lines 229-233: the sliding sum.  A footprint with no cells is refused by
\* ndimage.convolve: with a ValueError (invalid origin) or a RuntimeError
\* (filter weights array has incorrect shape), depending on the scipy release.
SG_Convolve ==
    /\ pc = "sg_convolve"
    /\ IF Val(conversion) = 0
       THEN /\ \E e \in {"ValueError", "RuntimeError"} : Raise(e, "convolve")
            /\ new_density' = new_density
       ELSE /\ new_density' = Convolve(input_grid, Val(conversion))
            /\ Continue("sg_sample")
    /\ UNCHANGED <<entry, input_grid, output_gridsize, conversion,
                   final_new_density, rgVars, args, outFile>>

\* Lines 238-250: allocate the output, sample every conversion-th cell,
\* normalise, return.
SG_Sample ==
    /\ pc = "sg_sample"
    /\ final_new_density' = Sample(new_density, Val(output_gridsize),
                                   Val(conversion))
    /\ Continue("returned")
    /\ UNCHANGED <<entry, input_grid, output_gridsize, conversion,
                   new_density, rgVars, args, outFile>>

\* -------------------------------------------------------------- read_grid
\* Lines 140-154: parse the precision tag.
RG_ParsePrecision ==
    /\ pc = "rg_precision"
    /\ IF precision \in ReadPrecisions
       THEN Continue("rg_size")
       ELSE Raise("ValueError", "precision")
    /\ UNCHANGED <<entry, sgVars, rgVars, args, outFile>>

\* Lines 156-163: os.stat and the size check.
RG_CheckSize ==
    /\ pc = "rg_size"
    /\ fileOps' = Append(fileOps, "stat")
    /\ IF ~file.exists
       THEN Raise("FileNotFoundError", "stat")
       ELSE IF SizeMismatch(Val(gridsize), byte_size(precision), file.size)
            THEN Raise("RuntimeError", "size")
            ELSE Continue("rg_read")
    /\ UNCHANGED <<entry, sgVars, file, gridsize, precision, grid, args,
                   outFile>>

\* Lines 165-172: open, read gridsize^3 elements, reshape, close, return.
\* Assigning the shape raises ValueError when the number of elements read
\* is not gridsize^3.  Back in __main__ the result is bound to input_grid.
RG_Read ==
    /\ pc = "rg_read"
    /\ IF FromFileCount(file, Cube(Val(gridsize)), byte_size(precision))
            # Cube(Val(gridsize))
       THEN /\ fileOps' = fileOps \o <<"open", "read">>
            /\ Raise("ValueError", "reshape")
            /\ UNCHANGED <<grid, input_grid>>
       ELSE /\ fileOps' = fileOps \o <<"open", "read", "close">>
            /\ grid' = ReadArray(Val(gridsize), precision)
            /\ IF entry = "main"
               THEN /\ input_grid' = grid'
                    /\ Continue("main_subsample")
               ELSE /\ input_grid' = input_grid
                    /\ Continue("returned")
    /\ UNCHANGED <<entry, output_gridsize, conversion, new_density,
                   final_new_density, file, gridsize, precision, args,
                   outFile>>

\* --------------------------------------------------------------- __main__
\* Lines 255-258: parse_inputs() and, when it returns, the call of
\* read_grid with the parsed arguments.
Main_ParseInputs ==
    /\ pc = "main_parse"
    /\ IF ParseVerdict(args) = "ok"
       THEN /\ gridsize' = args.gridsize_in
            /\ precision' = args.precision
            /\ Continue("rg_precision")
       ELSE /\ Raise(ParseError(ParseVerdict(args)), ParseVerdict(args))
            /\ UNCHANGED <<gridsize, precision>>
    /\ UNCHANGED <<entry, sgVars, file, grid, fileOps, args, outFile>>

\* Lines 260-262: subsample_grid, a function of two parameters, is called
\* with three arguments, which raises TypeError before its body runs.
\* Lines 264-265, the write of the output file, are therefore never reached.
Main_Subsample ==
    /\ pc = "main_subsample"
    /\ Raise("TypeError", "subsample_call")
    /\ UNCHANGED <<entry, sgVars, rgVars, args, outFile>>

Next ==
    \/ SG_CheckCubic
    \/ SG_CheckRatio
    \/ SG_Conversion
    \/ SG_Convolve
    \/ SG_Sample
    \/ RG_ParsePrecision
    \/ RG_CheckSize
    \/ RG_Read
    \/ Main_ParseInputs
    \/ Main_Subsample

Spec == Init /\ [][Next]_vars

\* ----------------------------------------------------------------- claims
Terminated == pc \in {"raised", "returned"}

\* A direct call of subsample_grid has ended, with an exception or a result.
SubsampleEnded == entry = "subsample_grid" /\ Terminated

InputGridsize == input_grid.shape[1]

\* A cubic input of edge N >= 1 and a positive output size that divides N.
ValidPair ==
    /\ IsCubic(input_grid)
    /\ InputGridsize >= 1
    /\ Val(output_gridsize) >= 1
    /\ InputGridsize % Val(output_gridsize) = 0

\* k = N / M of a valid pair.
Ratio == InputGridsize \div Val(output_gridsize)

\* The block of input cells whose minimum corner is (i*k, j*k, l*k).
BlockCells(c, k) ==
    ((c[1] * k)..(c[1] * k + k - 1)) \X ((c[2] * k)..(c[2] * k + k - 1))
        \X ((c[3] * k)..(c[3] * k + k - 1))

OutputCells ==
    Cells(<<Val(output_gridsize), Val(output_gridsize), Val(output_gridsize)>>)

\* The fraction q = <<numerator, denominator>> equals a / b.
FracEq(q, a, b) == q[1] * b = a * q[2]

\* C1: for every cubic input of edge N and every M with N = M*k,
\* subsample_grid returns a grid whose cell (i,j,l) is the arithmetic mean
\* of the k*k*k input cells of the block with minimum corner (i*k,j*k,l*k).
C1_BlockMean ==
    (SubsampleEnded /\ ValidPair) =>
        /\ pc = "returned"
        /\ \A c \in OutputCells :
              FracEq(final_new_density.data[c],
                     SumOver(BlockCells(c, Ratio), input_grid.data),
                     Cube(Ratio))

\* C2: for every cubic input of edge N and every positive M that divides N,
\* subsample_grid raises no error and returns a grid of shape (M, M, M).
C2_ShapeNoError ==
    (SubsampleEnded /\ ValidPair) =>
        /\ raised = "None"
        /\ final_new_density.shape
             = <<Val(output_gridsize), Val(output_gridsize),
                 Val(output_gridsize)>>

\* parse_inputs has rejected the command line with a ValueError.
RejectedByParse ==
    /\ pc = "raised"
    /\ raised = "ValueError"
    /\ raisedAt \in {"fname", "precision", "gridsize", "upsample", "ratio"}
    /\ grid = NoGrid

\* subsample_grid has rejected the request at its ratio check, before the
\* sliding sum, with a RuntimeError.
RejectedByRatioCheck ==
    /\ pc = "raised"
    /\ raised = "RuntimeError"
    /\ raisedAt = "ratio"
    /\ new_density = NoGrid
    /\ final_new_density = NoGrid

C4_UpsamplingRejected ==
    /\ (/\ entry = "main"
        /\ pc # "main_parse"
        /\ args.gridsize_in # None
        /\ args.gridsize_out # None
        /\ Val(args.gridsize_out) > Val(args.gridsize_in))
       => (RejectedByParse /\ raisedAt # "ratio")
    /\ (/\ SubsampleEnded
        /\ IsCubic(input_grid)
        /\ InputGridsize >= 1
        /\ Val(output_gridsize) > InputGridsize)
       => RejectedByRatioCheck

\* C5: for every valid pair (N, M) and every value v, subsample_grid applied
\* to the N^3 grid filled uniformly with v returns a grid in which every one
\* of the M^3 cells equals v.
C5_Homogeneity ==
    \A v \in 0..MaxValue :
        (/\ SubsampleEnded
         /\ ValidPair
         /\ input_grid.data = [c \in Cells(input_grid.shape) |-> v])
        => /\ pc = "returned"
           /\ \A c \in OutputCells : FracEq(final_new_density.data[c], v, 1)

\* C6: for every valid pair (N, M) with k = N/M, if the input is zero except
\* for the value c at each block-aligned origin (i*k, j*k, l*k), every cell
\* of the grid subsample_grid returns equals c / k^3.
C6_ImpulseScaling ==
    \A v \in (1..MaxValue) \cup {Cube(k) : k \in 1..MaxGridsize} :
        (/\ SubsampleEnded
         /\ ValidPair
         /\ input_grid.data
              = Impulse(InputGridsize, input_grid.dtype, Ratio, v).data)
        => /\ pc = "returned"
           /\ \A c \in OutputCells :
                 FracEq(final_new_density.data[c], v, Cube(Ratio))

\* C7: for each supported input element kind (int32, float32, float64) the
\* grid subsample_grid returns has the float64 element kind.
C7_OutputIsFloat64 ==
    (entry = "subsample_grid" /\ pc = "returned") =>
        /\ input_grid.dtype \in Dtypes
        /\ final_new_density.dtype = "float64"

\* A grid of at least one cell was returned for an int32 input.
C7_Witness ==
    /\ entry = "subsample_grid"
    /\ pc = "returned"
    /\ input_grid.dtype = "int32"
    /\ Val(output_gridsize) >= 1
    /\ final_new_density.dtype = "float64"

\* The element width the file format gives each precision tag.
ElementWidth(p) == IF p \in {"int", "float"} THEN 4 ELSE 8

\* C8: for a supported precision tag, read_grid fails with the size-mismatch
\* RuntimeError exactly when the file's byte length differs from
\* gridsize^3 * element_width, without reading the file; when the length
\* matches it returns a grid of shape (gridsize, gridsize, gridsize) that
\* holds exactly gridsize^3 elements.
C8_SizeMismatch ==
    (/\ entry = "read_grid"
     /\ Terminated
     /\ precision \in {"int", "float", "double"}
     /\ file.exists)
    => IF file.size # Cube(Val(gridsize)) * ElementWidth(precision)
       THEN /\ raised = "RuntimeError"
            /\ raisedAt = "size"
            /\ fileOps = <<"stat">>
            /\ grid = NoGrid
       ELSE /\ pc = "returned"
            /\ raised = "None"
            /\ grid.shape = <<Val(gridsize), Val(gridsize), Val(gridsize)>>
            /\ Cardinality(DOMAIN grid.data) = Cube(Val(gridsize))
            /\ grid.dtype = precision_dtype(precision)

\* A file of 4 bytes per cell declared double is refused.
C8_Witness ==
    /\ entry = "read_grid"
    /\ precision = "double"
    /\ Val(gridsize) >= 2
    /\ file.exists
    /\ file.size = Cube(Val(gridsize)) * 4
    /\ raised = "RuntimeError"
    /\ raisedAt = "size"

\* read_grid has been called: its parameters are bound.
ReadGridCalled == gridsize # None

\* C9: read_grid fails with the invalid-precision ValueError for every
\* precision tag outside the three supported kinds, whatever the file is
\* and before the file is inspected or read; for each supported kind it
\* never raises that error.
C9_InvalidPrecision ==
    ReadGridCalled =>
        IF precision \notin {"int", "float", "double"}
        THEN /\ fileOps = <<>>
             /\ pc # "rg_precision" =>
                   (pc = "raised" /\ raised = "ValueError"
                        /\ raisedAt = "precision")
        ELSE raised # "ValueError"

\* An unsupported tag is refused although the file has the size of a grid.
C9_Witness ==
    /\ entry = "read_grid"
    /\ precision = "half"
    /\ Val(gridsize) >= 1
    /\ file.exists
    /\ file.size = Cube(Val(gridsize)) * 4
    /\ raised = "ValueError"
    /\ raisedAt = "precision"
    /\ fileOps = <<>>

\* C10: for command-line arguments that pass validation and an input file
\* of exactly the declared size, the script reads, reduces and writes, and
\* ends having written output_gridsize^3 double-precision elements.
C10_EndToEnd ==
    (/\ entry = "main"
     /\ Terminated
     /\ ParseVerdict(args) = "ok"
     /\ file.exists
     /\ file.size = Cube(Val(args.gridsize_in)) * ElementWidth(args.precision))
    => /\ raised = "None"
       /\ outFile.exists
       /\ outFile.size = Cube(Val(args.gridsize_out)) * 8

\* A direct call of subsample_grid that validation has to refuse: the input
\* is not cubic, the output is larger than the input, or the ratio of the
\* gridsizes is not an integer.
InvalidSubsampleRequest ==
    /\ entry = "subsample_grid"
    /\ \/ ~IsCubic(input_grid)
       \/ Val(output_gridsize) > InputGridsize
       \/ /\ Val(output_gridsize) # 0
          /\ InputGridsize % Val(output_gridsize) # 0

\* A call of read_grid that validation has to refuse: the precision tag is
\* not supported, or the file has not the declared size.
InvalidReadRequest ==
    /\ ReadGridCalled
    /\ \/ precision \notin {"int", "float", "double"}
       \/ /\ file.exists
          /\ file.size # Cube(Val(gridsize)) * ElementWidth(precision)

Range(seq) == {seq[i] : i \in DOMAIN seq}

SampledFootprint(i, k) == {i * k + d : d \in FootprintOffsets(k)}

====
